---- MODULE Spec2Model ----
(***************************************************************************)
(* Model of package expression (src/expression/expression.go): the        *)
(* Constant variant, EvalBool, the balanced CNF/DNF composition and its    *)
(* flattening, EvaluateExprWithNull and ResultFieldsToSchema.              *)
(*                                                                         *)
(* Every function of the package is a pure function of its arguments, so   *)
(* the state machine is: Init draws the arguments of one call (a "task"),  *)
(* and one action per function applies it and records what it returns.     *)
(* The composition can be followed by the flattening of its result.        *)
(*                                                                         *)
(* Expressions are records tagged by "kind":                               *)
(*   Nil                                   the nil Expression interface    *)
(*   [kind |-> "Constant", Value, RetType]                                 *)
(*   [kind |-> "Column", ColName, TblName, DBName, RetType, Position]      *)
(*   [kind |-> "ScalarFunction", FuncName, Args]                           *)
(* Go slices are 0-based, TLA+ sequences 1-based: the element at Go index  *)
(* i is at i + 1 here; Position keeps the Go index.                        *)
(***************************************************************************)
EXTENDS Integers, Sequences, FiniteSets

VARIABLES
    task,        \* which function's arguments Init drew
    trace,       \* the functions called so far, in order
    conditions,  \* []Expression argument of the composition
    funcName,    \* operator name given to the composition / the flattening
    expr,        \* the expression argument (or the composition's result)
    other,       \* the argument b of c.Equal(b)
    schema,      \* Schema argument of EvaluateExprWithNull / result of ResultFieldsToSchema
    fields,      \* []*ast.ResultField argument of ResultFieldsToSchema
    data,        \* what expr.Eval returned inside EvalBool: [val, err]
    items,       \* []Expression result of the flattening
    ret          \* the last call's results

vars == <<task, trace, conditions, funcName, expr, other, schema, fields, data, items, ret>>

----------------------------------------------------------------------------
(* Bounds of the model.                                                    *)

\* longest list of conditions given to the composition
MaxLen == 5
\* most nodes of an expression tree given to the flattening / EvaluateExprWithNull
MaxNodes == 5
\* longest list of result fields given to ResultFieldsToSchema
MaxFields == 2

----------------------------------------------------------------------------
(* Collaborators outside src/: names, values, the function registry.       *)

\* the concatenation of a sequence of sequences (a loop of append(ret, s...))
RECURSIVE Flatten(_)
Flatten(ss) == IF ss = <<>> THEN <<>> ELSE Head(ss) \o Flatten(Tail(ss))

\* ast.AndAnd / ast.OrOr: the lower-case operator names
AndAnd == "and"
OrOr == "or"

\* the nil error, and errors.Trace (which only annotates the error)
NoError == "nil"
Trace(err) == err

\* strings.ToLower on the identifiers the model uses
ToLower(s) ==
    CASE s = "C1" -> "c1"
      [] s = "T1" -> "t1"
      [] OTHER -> s

\* model.NewCIStr: a case-insensitive string, O as written and L lower-cased
NewCIStr(s) == [O |-> s, L |-> ToLower(s)]

\* the nil Expression
Nil == [kind |-> "nil"]

\* types.Datum: a tagged value; the zero Datum{} is the null value
NullDatum == [k |-> "null", v |-> 0]
IntDatum(n) == [k |-> "int", v |-> n]
StrDatum(s) == [k |-> "str", v |-> s]

\* Datum.IsNull
IsNull(d) == d.k = "null"

\* Datum.ToBool: the coercion to 0/1; it fails on a value that has no
\* boolean reading (a non-numeric string, the null value)
ToBool(d) ==
    CASE d.k = "int" -> [i |-> d.v, err |-> NoError]
      [] d.k = "str" /\ d.v = "0" -> [i |-> 0, err |-> NoError]
      [] d.k = "str" /\ d.v = "1" -> [i |-> 1, err |-> NoError]
      [] OTHER -> [i |-> 0, err |-> "cannot convert to bool"]

\* the order of the string values the model uses
StrRank(s) == CASE s = "0" -> 0 [] s = "1" -> 1 [] OTHER -> 2

Sign(n) == IF n < 0 THEN -1 ELSE IF n > 0 THEN 1 ELSE 0

\* Datum.CompareDatum: the ordered comparison of two values, (-1 | 0 | 1, err).
\* Null sorts first; values of one kind compare by value; an integer and a
\* string have no common type, which is a coercion failure.
CompareDatum(x, y) ==
    CASE x.k = "null" /\ y.k = "null" -> [con |-> 0, err |-> NoError]
      [] x.k = "null" -> [con |-> -1, err |-> NoError]
      [] y.k = "null" -> [con |-> 1, err |-> NoError]
      [] x.k = "int" /\ y.k = "int" -> [con |-> Sign(x.v - y.v), err |-> NoError]
      [] x.k = "str" /\ y.k = "str" ->
            [con |-> Sign(StrRank(x.v) - StrRank(y.v)), err |-> NoError]
      [] OTHER -> [con |-> 0, err |-> "cannot compare"]

\* codec.EncodeValue: the canonical encoding of a value appended to b: the
\* kind's flag, then the value
EncodeValue(b, d) ==
    [bytes |-> IF IsNull(d) THEN b \o <<d.k>> ELSE b \o <<d.k, d.v>>, err |-> NoError]

\* the registry NewFunction consults: recognised names and their arity
Funcs == [name \in {AndAnd, OrOr} |-> 2]

\* NewFunction(funcName, retType, args...): builds the ScalarFunction node, or
\* fails when the name is not a recognised function or the arity is wrong
NewFunction(name, args) ==
    IF name \notin DOMAIN Funcs
    THEN [expr |-> Nil, err |-> "unknown function"]
    ELSE IF Len(args) # Funcs[name]
    THEN [expr |-> Nil, err |-> "wrong number of arguments"]
    ELSE [expr |-> [kind |-> "ScalarFunction", FuncName |-> NewCIStr(name), Args |-> args],
          err |-> NoError]

\* Schema.GetIndex: the 0-based index of the column in the schema, -1 if absent
GetIndex(sch, col) ==
    LET hits == {i \in DOMAIN sch :
                    /\ sch[i].DBName.L = col.DBName.L
                    /\ sch[i].TblName.L = col.TblName.L
                    /\ sch[i].ColName.L = col.ColName.L}
    IN IF hits = {} THEN -1
       ELSE (CHOOSE i \in hits : \A j \in hits : i <= j) - 1

----------------------------------------------------------------------------
(* The Constant variant.                                                   *)

\* Constant.Eval
ConstantEval(c) == [val |-> c.Value, err |-> NoError]

\* Constant.Clone: a copy of the struct
ConstantClone(c) == [kind |-> "Constant", Value |-> c.Value, RetType |-> c.RetType]

\* mutant of ConstantEqual: the comparison's error is not looked at
ConstantEqualIgnoringErr(c, b) ==
    IF b.kind # "Constant" THEN FALSE
    ELSE CompareDatum(c.Value, b.Value).con = 0

\* mutant of ConstantEqual: the declared types must be the same too
ConstantEqualWithType(c, b) ==
    IF b.kind # "Constant" THEN FALSE
    ELSE LET cmp == CompareDatum(c.Value, b.Value)
         IN cmp.err = NoError /\ cmp.con = 0 /\ c.RetType = b.RetType

\* Constant.Equal
ConstantEqual(c, b) ==
    IF b.kind # "Constant" THEN FALSE
    ELSE LET cmp == CompareDatum(c.Value, b.Value)
         IN IF cmp.err # NoError \/ cmp.con # 0 THEN FALSE ELSE TRUE

\* Constant.HashCode: the encoding of the value; EncodeValue's error is dropped
ConstantHashCode(c) == EncodeValue(<<>>, c.Value).bytes

\* Expression.Clone, by variant (only Constant's is in this file)
Clone(x) == IF x.kind = "Constant" THEN ConstantClone(x) ELSE x

----------------------------------------------------------------------------
(* EvalBool.                                                               *)

\* mutant of EvalBool: no test for the null value before the coercion
EvalBoolWithoutNullTest(d) ==
    IF d.err # NoError THEN [b |-> FALSE, err |-> Trace(d.err)]
    ELSE LET c == ToBool(d.val)
         IN IF c.err # NoError THEN [b |-> FALSE, err |-> Trace(c.err)]
            ELSE [b |-> c.i # 0, err |-> NoError]

\* EvalBool after expr.Eval returned d = [val, err]
EvalBool(d) ==
    IF d.err # NoError THEN [b |-> FALSE, err |-> Trace(d.err)]
    ELSE IF IsNull(d.val) THEN [b |-> FALSE, err |-> NoError]
    ELSE LET c == ToBool(d.val)
         IN IF c.err # NoError THEN [b |-> FALSE, err |-> Trace(c.err)]
            ELSE [b |-> c.i # 0, err |-> NoError]

----------------------------------------------------------------------------
(* Balanced composition and flattening.                                    *)

\* mutant of composeConditionWithBinaryOp: a linear fold, the first condition
\* against the composition of the rest
RECURSIVE composeLinear(_, _)
composeLinear(conds, name) ==
    IF Len(conds) = 0 THEN Nil
    ELSE IF Len(conds) = 1 THEN conds[1]
    ELSE NewFunction(name, <<conds[1], composeLinear(Tail(conds), name)>>).expr

\* mutant of composeConditionWithBinaryOp: the second half starts one element
\* late (conditions[length/2+1:])
RECURSIVE composeSkipping(_, _)
composeSkipping(conds, name) ==
    LET length == Len(conds)
    IN IF length = 0 THEN Nil
       ELSE IF length = 1 THEN conds[1]
       ELSE NewFunction(name,
                <<composeSkipping(SubSeq(conds, 1, length \div 2), name),
                  composeSkipping(SubSeq(conds, length \div 2 + 2, length), name)>>).expr

RECURSIVE composeConditionWithBinaryOp(_, _)
composeConditionWithBinaryOp(conds, name) ==
    LET length == Len(conds)
    IN IF length = 0 THEN Nil
       ELSE IF length = 1 THEN conds[1]
       ELSE NewFunction(name,
                <<composeConditionWithBinaryOp(SubSeq(conds, 1, length \div 2), name),
                  composeConditionWithBinaryOp(SubSeq(conds, length \div 2 + 1, length), name)>>).expr

ComposeCNFCondition(conds) == composeConditionWithBinaryOp(conds, AndAnd)

ComposeDNFCondition(conds) == composeConditionWithBinaryOp(conds, OrOr)

\* mutant of splitNormalFormItems: every ScalarFunction is descended into,
\* whatever its name
RECURSIVE splitAnyFunction(_, _)
splitAnyFunction(onExpr, name) ==
    IF onExpr.kind = "ScalarFunction"
    THEN Flatten([i \in DOMAIN onExpr.Args |-> splitAnyFunction(onExpr.Args[i], name)])
    ELSE <<onExpr>>

RECURSIVE splitNormalFormItems(_, _)
splitNormalFormItems(onExpr, name) ==
    IF onExpr.kind = "ScalarFunction" /\ onExpr.FuncName.L = name
    THEN Flatten([i \in DOMAIN onExpr.Args |-> splitNormalFormItems(onExpr.Args[i], name)])
    ELSE <<onExpr>>

SplitCNFItems(onExpr) == splitNormalFormItems(onExpr, AndAnd)

SplitDNFItems(onExpr) == splitNormalFormItems(onExpr, OrOr)

----------------------------------------------------------------------------
(* EvaluateExprWithNull and ResultFieldsToSchema.                          *)

\* mutant of EvaluateExprWithNull: the schema test is inverted
RECURSIVE EvaluateExprWithNullInverted(_, _)
EvaluateExprWithNullInverted(sch, x) ==
    CASE x.kind = "ScalarFunction" ->
            LET rs == [i \in DOMAIN x.Args |-> EvaluateExprWithNullInverted(sch, x.Args[i])]
                failed == {i \in DOMAIN rs : rs[i].err # NoError}
                first == CHOOSE i \in failed : \A j \in failed : i <= j
            IN IF failed # {}
               THEN [expr |-> Nil, err |-> Trace(rs[first].err)]
               ELSE NewFunction(x.FuncName.L, [i \in DOMAIN rs |-> rs[i].expr])
      [] x.kind = "Column" ->
            IF GetIndex(sch, x) # -1
            THEN [expr |-> x, err |-> NoError]
            ELSE [expr |-> [kind |-> "Constant", Value |-> NullDatum, RetType |-> "nil"],
                  err |-> NoError]
      [] OTHER -> [expr |-> Clone(x), err |-> NoError]

RECURSIVE EvaluateExprWithNull(_, _)
EvaluateExprWithNull(sch, x) ==
    CASE x.kind = "ScalarFunction" ->
            LET rs == [i \in DOMAIN x.Args |-> EvaluateExprWithNull(sch, x.Args[i])]
                failed == {i \in DOMAIN rs : rs[i].err # NoError}
                first == CHOOSE i \in failed : \A j \in failed : i <= j
            IN IF failed # {}
               THEN [expr |-> Nil, err |-> Trace(rs[first].err)]
               ELSE NewFunction(x.FuncName.L, [i \in DOMAIN rs |-> rs[i].expr])
      [] x.kind = "Column" ->
            IF GetIndex(sch, x) = -1
            THEN [expr |-> x, err |-> NoError]
            ELSE [expr |-> [kind |-> "Constant", Value |-> NullDatum, RetType |-> "nil"],
                  err |-> NoError]
      [] OTHER -> [expr |-> Clone(x), err |-> NoError]

\* mutant of SchemaColumn: the test for an empty column alias is inverted
SchemaColumnAliasInverted(field, i) ==
    LET colName == IF field.ColumnAsName.L # "" THEN field.Column.Name
                   ELSE field.ColumnAsName
        tblName == IF field.TableAsName.L = "" THEN field.Table.Name
                   ELSE field.TableAsName
    IN [kind |-> "Column", ColName |-> colName, TblName |-> tblName,
        DBName |-> field.DBName, RetType |-> field.Column.FieldType, Position |-> i]

\* the Column built for the field at Go index i
SchemaColumn(field, i) ==
    LET colName == IF field.ColumnAsName.L = "" THEN field.Column.Name
                   ELSE field.ColumnAsName
        tblName == IF field.TableAsName.L = "" THEN field.Table.Name
                   ELSE field.TableAsName
    IN [kind |-> "Column", ColName |-> colName, TblName |-> tblName,
        DBName |-> field.DBName, RetType |-> field.Column.FieldType, Position |-> i]

ResultFieldsToSchema(fs) == [n \in DOMAIN fs |-> SchemaColumn(fs[n], n - 1)]

----------------------------------------------------------------------------
(* The arguments the calls are given.                                      *)

\* a Column expression, not yet resolved against a schema
Col(name) ==
    [kind |-> "Column", ColName |-> NewCIStr(name), TblName |-> NewCIStr("t"),
     DBName |-> NewCIStr("d"), RetType |-> "int", Position |-> -1]

Const(d, t) == [kind |-> "Constant", Value |-> d, RetType |-> t]

\* a ScalarFunction struct, which may hold any name and any arguments
App(name, args) ==
    [kind |-> "ScalarFunction", FuncName |-> NewCIStr(name), Args |-> args]

ColA == Col("a")
ColB == Col("b")
ConstOne == Const(IntDatum(1), "int")
AndAB == App(AndAnd, <<ColA, ColB>>)
OrAB == App(OrOr, <<ColA, ColB>>)

\* function names: the two normal-form operators and one the registry lacks
Names == {AndAnd, OrOr, "foo"}
Leaves == {ColA, ColB, ConstOne}

\* the expression trees of exactly n nodes, of arity one and two
Trees[n \in 1..MaxNodes] ==
    IF n = 1 THEN Leaves
    ELSE {App(f, <<t>>) : f \in Names, t \in Trees[n - 1]}
         \cup UNION {{App(f, <<l, r>>) : f \in Names, l \in Trees[i], r \in Trees[n - 1 - i]} :
                        i \in 1..(n - 2)}

Exprs == UNION {Trees[n] : n \in 1..MaxNodes} \cup {App(f, <<>>) : f \in Names}

CondPool == {ColA, ConstOne, AndAB, OrAB}
CondLists == UNION {[1..n -> CondPool] : n \in 0..MaxLen}

Schemas == {<<>>, <<ColA>>, <<ColB, ColA>>}

Datums == {NullDatum, IntDatum(0), IntDatum(1), StrDatum("1"), StrDatum("x")}
Constants == {Const(d, t) : d \in Datums, t \in {"int", "str"}}

\* what Eval of an expression may return: a Constant returns its value; the
\* other variants read the row, so any value or an evaluation fault
EvalOutcomes(e) ==
    IF e.kind = "Constant" THEN {ConstantEval(e)}
    ELSE {[val |-> d, err |-> NoError] : d \in Datums}
         \cup {[val |-> NullDatum, err |-> "evaluation fault"]}

ResultField(colAs, tblAs, col) ==
    [Column |-> [Name |-> NewCIStr(col), FieldType |-> "ft"],
     Table |-> [Name |-> NewCIStr("T1")],
     ColumnAsName |-> NewCIStr(colAs), TableAsName |-> NewCIStr(tblAs),
     DBName |-> NewCIStr("db")]

FieldPool == {ResultField(ca, ta, c) : ca \in {"", "c2"}, ta \in {"", "t2"}, c \in {"C1", "c3"}}
FieldLists == UNION {[1..n -> FieldPool] : n \in 0..MaxFields}

NoRet == [kind |-> "none"]
NoData == [val |-> NullDatum, err |-> NoError]

----------------------------------------------------------------------------
(* The state machine.                                                      *)

Idle ==
    /\ trace = <<>>
    /\ funcName = ""
    /\ items = <<>>
    /\ ret = NoRet
    /\ data = NoData

Init ==
    /\ Idle
    /\ \/ /\ task = "compose"
          /\ conditions \in CondLists
          /\ expr = Nil /\ other = Nil /\ schema = <<>> /\ fields = <<>>
       \/ /\ task = "split"
          /\ expr \in Exprs \cup {Nil}
          /\ conditions = <<>> /\ other = Nil /\ schema = <<>> /\ fields = <<>>
       \/ /\ task = "null"
          /\ expr \in Exprs
          /\ schema \in Schemas
          /\ conditions = <<>> /\ other = Nil /\ fields = <<>>
       \/ /\ task = "schema"
          /\ fields \in FieldLists
          /\ conditions = <<>> /\ expr = Nil /\ other = Nil /\ schema = <<>>
       \/ /\ task = "bool"
          /\ expr \in Constants \cup {ColA, AndAB}
          /\ conditions = <<>> /\ other = Nil /\ schema = <<>> /\ fields = <<>>
       \/ /\ task = "equal"
          /\ expr \in Constants
          /\ other \in Constants \cup {ColA, AndAB}
          /\ conditions = <<>> /\ schema = <<>> /\ fields = <<>>

CallComposeCNFCondition ==
    /\ task = "compose" /\ trace = <<>>
    /\ trace' = <<"ComposeCNFCondition">>
    /\ funcName' = AndAnd
    /\ ret' = [expr |-> ComposeCNFCondition(conditions)]
    /\ UNCHANGED <<task, conditions, expr, other, schema, fields, data, items>>

CallComposeDNFCondition ==
    /\ task = "compose" /\ trace = <<>>
    /\ trace' = <<"ComposeDNFCondition">>
    /\ funcName' = OrOr
    /\ ret' = [expr |-> ComposeDNFCondition(conditions)]
    /\ UNCHANGED <<task, conditions, expr, other, schema, fields, data, items>>

\* the helper itself, as any caller in the package may call it
CallComposeConditionWithBinaryOp ==
    /\ task = "compose" /\ trace = <<>>
    /\ \E name \in Names :
          /\ funcName' = name
          /\ ret' = [expr |-> composeConditionWithBinaryOp(conditions, name)]
    /\ trace' = <<"composeConditionWithBinaryOp">>
    /\ UNCHANGED <<task, conditions, expr, other, schema, fields, data, items>>

\* the flattening takes the expression Init drew, or the composition's result
CallSplitCNFItems ==
    /\ \/ task = "split" /\ trace = <<>>
       \/ trace = <<"ComposeCNFCondition">>
    /\ expr' = IF trace = <<>> THEN expr ELSE ret.expr
    /\ funcName' = AndAnd
    /\ items' = SplitCNFItems(expr')
    /\ trace' = Append(trace, "SplitCNFItems")
    /\ UNCHANGED <<task, conditions, other, schema, fields, data, ret>>

CallSplitDNFItems ==
    /\ \/ task = "split" /\ trace = <<>>
       \/ trace = <<"ComposeDNFCondition">>
    /\ expr' = IF trace = <<>> THEN expr ELSE ret.expr
    /\ funcName' = OrOr
    /\ items' = SplitDNFItems(expr')
    /\ trace' = Append(trace, "SplitDNFItems")
    /\ UNCHANGED <<task, conditions, other, schema, fields, data, ret>>

CallSplitNormalFormItems ==
    /\ task = "split" /\ trace = <<>>
    /\ \E name \in Names :
          /\ funcName' = name
          /\ items' = splitNormalFormItems(expr, name)
    /\ trace' = <<"splitNormalFormItems">>
    /\ UNCHANGED <<task, conditions, expr, other, schema, fields, data, ret>>

CallEvaluateExprWithNull ==
    /\ task = "null" /\ trace = <<>>
    /\ ret' = EvaluateExprWithNull(schema, expr)
    /\ trace' = <<"EvaluateExprWithNull">>
    /\ UNCHANGED <<task, conditions, funcName, expr, other, schema, fields, data, items>>

CallResultFieldsToSchema ==
    /\ task = "schema" /\ trace = <<>>
    /\ schema' = ResultFieldsToSchema(fields)
    /\ trace' = <<"ResultFieldsToSchema">>
    /\ UNCHANGED <<task, conditions, funcName, expr, other, fields, data, items, ret>>

CallEvalBool ==
    /\ task = "bool" /\ trace = <<>>
    /\ \E d \in EvalOutcomes(expr) :
          /\ data' = d
          /\ ret' = EvalBool(d)
    /\ trace' = <<"EvalBool">>
    /\ UNCHANGED <<task, conditions, funcName, expr, other, schema, fields, items>>

CallEqual ==
    /\ task = "equal" /\ trace = <<>>
    /\ ret' = [equal |-> ConstantEqual(expr, other)]
    /\ trace' = <<"Equal">>
    /\ UNCHANGED <<task, conditions, funcName, expr, other, schema, fields, data, items>>

\* HashCode of both operands of the comparison, when both are Constants
CallHashCode ==
    /\ trace = <<"Equal">> /\ other.kind = "Constant"
    /\ ret' = [equal |-> ret.equal, hashC |-> ConstantHashCode(expr),
               hashB |-> ConstantHashCode(other)]
    /\ trace' = Append(trace, "HashCode")
    /\ UNCHANGED <<task, conditions, funcName, expr, other, schema, fields, data, items>>

Next ==
    \/ CallComposeCNFCondition
    \/ CallComposeDNFCondition
    \/ CallComposeConditionWithBinaryOp
    \/ CallSplitCNFItems
    \/ CallSplitDNFItems
    \/ CallSplitNormalFormItems
    \/ CallEvaluateExprWithNull
    \/ CallResultFieldsToSchema
    \/ CallEvalBool
    \/ CallEqual
    \/ CallHashCode

Spec == Init /\ [][Next]_vars

----------------------------------------------------------------------------
(* Vocabulary of the properties: positions in a tree, multisets, log2.      *)

IsApp(e, name) == e.kind = "ScalarFunction" /\ e.FuncName.L = name

Last(trc) == IF trc = <<>> THEN "" ELSE trc[Len(trc)]

Max(a, b) == IF a >= b THEN a ELSE b

\* the least d with 2^d >= n
CeilLog2(n) == CHOOSE d \in 0..n : 2^d >= n /\ \A c \in 0..(d - 1) : 2^c < n

\* the positions of a tree: the sequences of argument indices from the root
RECURSIVE Paths(_)
Paths(e) ==
    IF e.kind # "ScalarFunction" THEN {<<>>}
    ELSE {<<>>} \cup UNION {{<<i>> \o p : p \in Paths(e.Args[i])} : i \in DOMAIN e.Args}

RECURSIVE NodeAt(_, _)
NodeAt(e, p) == IF p = <<>> THEN e ELSE NodeAt(e.Args[Head(p)], Tail(p))

\* q is left of p, for two positions neither of which is above the other
LeftOf(q, p) ==
    \E k \in 1..Len(q) :
        /\ k <= Len(p)
        /\ SubSeq(q, 1, k - 1) = SubSeq(p, 1, k - 1)
        /\ q[k] < p[k]

\* the positions where the run of applications of name that starts at the
\* root ends: everything above is an application of name, the node is not
RunEnds(e, name) ==
    {p \in Paths(e) :
        /\ ~IsApp(NodeAt(e, p), name)
        /\ \A k \in 0..(Len(p) - 1) : IsApp(NodeAt(e, SubSeq(p, 1, k)), name)}

Count(x, seq) == Cardinality({i \in DOMAIN seq : seq[i] = x})

SameMultiset(s, t) ==
    /\ Len(s) = Len(t)
    /\ \A i \in DOMAIN s : Count(s[i], s) = Count(s[i], t)

\* the depths d such that tree is list composed with applications of name
\* nested d deep above the elements of list
RECURSIVE CoverDepths(_, _, _)
CoverDepths(tree, list, name) ==
    (IF Len(list) = 1 /\ tree = list[1] THEN {0} ELSE {})
    \cup
    (IF IsApp(tree, name) /\ Len(tree.Args) = 2 /\ Len(list) >= 2
     THEN UNION {{1 + Max(d1, d2) :
                     d1 \in CoverDepths(tree.Args[1], SubSeq(list, 1, k), name),
                     d2 \in CoverDepths(tree.Args[2], SubSeq(list, k + 1, Len(list)), name)} :
                 k \in 1..(Len(list) - 1)}
     ELSE {})

----------------------------------------------------------------------------
(* C1.  Balanced composition.                                              *)

\* some ScalarFunction node of the tree is one NewFunction refuses to build
HasFault(e) ==
    \E p \in Paths(e) :
        LET n == NodeAt(e, p)
        IN n.kind = "ScalarFunction" /\ NewFunction(n.FuncName.L, n.Args).err # NoError

Composed == {<<"ComposeCNFCondition">>, <<"ComposeDNFCondition">>}

----------------------------------------------------------------------------
(* The properties.                                                         *)

\* C1: for a list of N >= 1 conditions ComposeCNFCondition (ComposeDNFCondition)
\* returns the list composed with AND (OR) applications nested exactly
\* ceil(log2 N) deep above the conditions; for N = 1 the result is the
\* condition itself.
C1_BalancedDepth ==
    (trace \in Composed /\ Len(conditions) >= 1) =>
        /\ CoverDepths(ret.expr, conditions, funcName) = {CeilLog2(Len(conditions))}
        /\ Len(conditions) = 1 => ret.expr = conditions[1]

C1_Witness ==
    /\ trace = <<"ComposeCNFCondition">>
    /\ Len(conditions) = 5
    /\ CoverDepths(ret.expr, conditions, AndAnd) = {3}

\* C2: for a non-empty list none of whose elements is an AND-application,
\* SplitCNFItems(ComposeCNFCondition(list)) has the same multiset of elements
\* as list; likewise SplitDNFItems / ComposeDNFCondition with OR.
C2_RoundTrip ==
    /\ ( /\ trace = <<"ComposeCNFCondition", "SplitCNFItems">>
         /\ conditions # <<>>
         /\ \A i \in DOMAIN conditions : ~IsApp(conditions[i], AndAnd) )
       => SameMultiset(items, conditions)
    /\ ( /\ trace = <<"ComposeDNFCondition", "SplitDNFItems">>
         /\ conditions # <<>>
         /\ \A i \in DOMAIN conditions : ~IsApp(conditions[i], OrOr) )
       => SameMultiset(items, conditions)

C2_Witness ==
    /\ trace = <<"ComposeCNFCondition", "SplitCNFItems">>
    /\ conditions = <<ColA, OrAB, ConstOne, ColA, OrAB>>
    /\ SameMultiset(items, conditions)

\* C3: ComposeCNFCondition of the empty list returns nil, and SplitCNFItems of
\* that nil returns a list of length 0.
C3_EmptyList ==
    (trace = <<"ComposeCNFCondition", "SplitCNFItems">> /\ conditions = <<>>) =>
        /\ expr = Nil
        /\ Len(items) = 0

\* what the code does there: the nil is returned as the one item of the list
C3_NilItem ==
    (trace = <<"ComposeCNFCondition", "SplitCNFItems">> /\ conditions = <<>>) =>
        /\ expr = Nil
        /\ items = <<Nil>>

C6_SchemaOfFields ==
    trace = <<"ResultFieldsToSchema">> =>
        /\ Len(schema) = Len(fields)
        /\ \A n \in DOMAIN fields :
              /\ schema[n].Position = n - 1
              /\ schema[n].ColName =
                    (IF fields[n].ColumnAsName.O # "" THEN fields[n].ColumnAsName
                     ELSE fields[n].Column.Name)
              /\ schema[n].TblName =
                    (IF fields[n].TableAsName.O # "" THEN fields[n].TableAsName
                     ELSE fields[n].Table.Name)

C6_Witness ==
    /\ trace = <<"ResultFieldsToSchema">>
    /\ fields = <<ResultField("", "", "C1"), ResultField("c2", "t2", "C1")>>
    /\ schema[1].ColName.O = "C1" /\ schema[1].TblName.O = "T1" /\ schema[1].Position = 0
    /\ schema[2].ColName.O = "c2" /\ schema[2].TblName.O = "t2" /\ schema[2].Position = 1

\* C7: EvalBool returns (false, error) when Eval or the coercion fails,
\* (false, nil) when Eval returns the null value, and otherwise (true, nil)
\* exactly when the coerced value is not zero.
C7_EvalBool ==
    trace = <<"EvalBool">> =>
        /\ data.err # NoError => (ret.b = FALSE /\ ret.err # NoError)
        /\ (data.err = NoError /\ IsNull(data.val)) =>
              (ret.b = FALSE /\ ret.err = NoError)
        /\ (data.err = NoError /\ ~IsNull(data.val) /\ ToBool(data.val).err # NoError) =>
              (ret.b = FALSE /\ ret.err # NoError)
        /\ (data.err = NoError /\ ~IsNull(data.val) /\ ToBool(data.val).err = NoError) =>
              (ret.err = NoError /\ (ret.b <=> ToBool(data.val).i # 0))

C7_Witness ==
    /\ trace = <<"EvalBool">>
    /\ expr = ColA
    /\ data = [val |-> NullDatum, err |-> NoError]
    /\ ret = [b |-> FALSE, err |-> NoError]

\* C8: two Constants holding the same value are Equal whatever their
\* declared types, and a Constant is never Equal to a Column or a
\* ScalarFunction.
C8_ConstantEquality ==
    (trace # <<>> /\ trace[1] = "Equal") =>
        /\ other.kind # "Constant" => ~ret.equal
        /\ (other.kind = "Constant" /\ other.Value.k = expr.Value.k
              /\ other.Value.v = expr.Value.v) => ret.equal

C8_Witness ==
    /\ trace = <<"Equal">>
    /\ expr = Const(IntDatum(1), "int")
    /\ other = Const(IntDatum(1), "str")
    /\ ret.equal

C9_EvaluateExprWithNullFaults ==
    trace = <<"EvaluateExprWithNull">> =>
        /\ HasFault(expr) => (ret.expr = Nil /\ ret.err # NoError)
        /\ ~HasFault(expr) => ret.err = NoError

\* C10: splitNormalFormItems(e, op) of a non-nil e lists, from left to
\* right, the subexpressions at which the run of op applications from the
\* root ends, each whole and once: no item is an application of op, and when
\* e is not an application of op the list is e alone.
C10_FlattenRun ==
    ( /\ Last(trace) \in {"SplitCNFItems", "SplitDNFItems", "splitNormalFormItems"}
      /\ expr # Nil ) =>
        LET ends == RunEnds(expr, funcName)
        IN /\ \A i \in DOMAIN items : ~IsApp(items[i], funcName)
           /\ Len(items) = Cardinality(ends)
           /\ \A p \in ends :
                 items[1 + Cardinality({q \in ends : LeftOf(q, p)})] = NodeAt(expr, p)
           /\ ~IsApp(expr, funcName) => items = <<expr>>

C10_Witness ==
    /\ Last(trace) = "splitNormalFormItems"
    /\ funcName = AndAnd
    /\ expr = App(AndAnd, <<App(AndAnd, <<ColA>>), App(OrOr, <<ColB>>)>>)
    /\ items = <<ColA, App(OrOr, <<ColB>>)>>

====
